---- MODULE Spec2Model ----
(***************************************************************************)
(* Model of the DMA logging engine of imxrt-uart-log (src/src/dma.rs,      *)
(* src/src/dma/sink.rs, src/src/dma/writer.rs).                            *)
(*                                                                         *)
(* One circular byte buffer alternates between the logger's slot           *)
(* (Inner.buffer, "Idle") and the DMA peripheral (Sink, "Active").         *)
(* log() and poll() run inside interrupt::free, so on the single core no   *)
(* other software context runs while one of them is executing; the DMA     *)
(* hardware, however, keeps running during a critical section.  Each       *)
(* handler is therefore modelled up to the one point where a hardware      *)
(* step in between can change what the handler observes:                   *)
(*   poll: after the interrupt latch is cleared, before the completion     *)
(*         test (dma.rs 283-287);                                          *)
(*   log : after is_transfer_complete() returned false, before the         *)
(*         write_half() insertion (dma.rs 202-218).                        *)
(* pc holds that position; while pc # "run" the critical section is held   *)
(* and only the continuation of the handler or the hardware may step.      *)
(***************************************************************************)
EXTENDS Integers, Sequences, FiniteSets, TLC

\* ------------------------------------------------------------------ bounds
\* Capacity of the circular buffer, in bytes (2048 by default, caller-chosen
\* with the "byob" feature); small enough to enumerate, large enough for two
\* whole records and a truncated third.
Capacity == 32
\* Number of log() calls a behaviour may make.
MaxLogs == 3

\* ------------------------------------------------------------------ state
VARIABLES
    buffer,         \* Inner.buffer: "Some" (idle buffer in the slot) or "None"
    source_buffer,  \* the peripheral's hold on the buffer: "Some" or "None"
    ring,           \* unread bytes of the Circular, oldest first
    reserved,       \* leading bytes of ring covered by the transfer in flight
    sent,           \* bytes of the transfer the DMA engine has moved so far
    enabled,        \* DMA channel enabled (a transfer was started, not reclaimed)
    complete,       \* DMA channel DONE flag
    interrupt,      \* DMA channel interrupt latch
    int_on_completion, \* channel configured to raise the interrupt on completion
    panic,          \* "none", or the message of the expect/unwrap that fired
    wire,           \* bytes the DMA engine has moved to the UART, in order
    pc,             \* "run", "poll_check", "poll_return", "log_append",
                    \* "bwrite"
    cur,            \* the call in progress: its arguments and entry snapshot
    last,           \* history: the most recently finished log()/poll() call
    stream,         \* history: bytes retained by the record calls, in call order
    full,           \* history: full serialisation of the records written
    recs,           \* history: per record written, its fields, the branch it
                    \* took, its serialisation and how many bytes were retained
    nlog,           \* history: number of log() calls made
    logger,         \* the LOGGER static: "None" before init, then "Some"
    log_set,        \* the log crate's global logger: "none", "dma" or
                    \* "blocking"
    max_level,      \* the log crate's global maximum level (0 = Off)
    filters,        \* Logger.filters: sequence of <<target, level option>>
    taken,          \* the default static BUFFER is in use by a Circular
    byob,           \* built with the "byob" feature: init is given its buffer
    ninit,          \* history: number of init() calls made
    nstart,         \* history: number of transfers started
    nreclaim,       \* history: number of buffers the peripheral handed back
    primask,        \* the core's interrupts are masked (a critical section)
    ctx,            \* context of the latest call: "thread", "isr", "dma_isr"
    tx_fifo,        \* blocking logger: bytes in the UART transmit FIFO
    frames,         \* blocking logger: bytes each log() in progress has yet
                    \* to write, innermost call first
    blocking_logger,  \* the LOGGER static of blocking::init: "None" or "Some"
    blocking_filters, \* the filters of the blocking Logger
    nbinit          \* history: number of blocking::init() calls made

vars == <<buffer, source_buffer, ring, reserved, sent, enabled, complete,
          interrupt, int_on_completion, panic, wire, pc, cur, last, stream,
          full, recs, nlog, logger, log_set, max_level, filters, taken, byob,
          ninit, nstart, nreclaim, primask, ctx, tx_fifo, frames,
          blocking_logger, blocking_filters, nbinit>>

\* The registration state, which only init() changes
regvars == <<logger, log_set, max_level, filters, taken, byob, ninit,
             blocking_logger, blocking_filters, nbinit>>

\* The state of the blocking logger, which the DMA logger never touches
blkvars == <<tx_fifo, frames>>

\* ------------------------------------------------------- records and filter
Levels == <<"ERROR", "WARN", "INFO", "DEBUG", "TRACE">>

\* log::Level as the integer log compares (Error = 1 .. Trace = 5)
LevelNum(l) == CHOOSE i \in 1..Len(Levels) : Levels[i] = l

\* Display of log::Level, byte by byte
LevelStr(l) ==
    CASE l = "ERROR" -> <<"E", "R", "R", "O", "R">>
      [] l = "WARN"  -> <<"W", "A", "R", "N">>
      [] l = "INFO"  -> <<"I", "N", "F", "O">>
      [] l = "DEBUG" -> <<"D", "E", "B", "U", "G">>
      [] l = "TRACE" -> <<"T", "R", "A", "C", "E">>

\* An Option<LevelFilter> of a filter entry: <<>> is None, <<n>> is Some(n)
NoLevel == <<>>
SomeLevel(l) == <<LevelNum(l)>>

\* The LoggingConfig the engine of Spec is installed with: max level Info, no
\* target filters
DefaultConfig == [max_level |-> LevelNum("INFO"), filters |-> <<>>]

\* Inputs of log(): levels, targets and messages the model draws from
InLevels == {"INFO", "DEBUG"}
InTargets == {<<"a", "p", "p">>}
InMessages == {<<"a">>, <<"b">>}

\* A message whose record is longer than the whole buffer
LongMessage == [i \in 1..Capacity - 13 |-> "x"]
BigMessages == {<<"a">>, LongMessage}

\* Filter configurations: one entry, an entry with a threshold, two targets,
\* and the same target listed twice with different thresholds
app == <<"a", "p", "p">>
net == <<"n", "e", "t">>
FilterLevels == {"ERROR", "INFO", "DEBUG"}
FilterTargets == {app, net}
TwoTargets == <<<<net, SomeLevel("DEBUG")>>, <<app, SomeLevel("INFO")>>>>
FilterConfigs ==
    { [max_level |-> LevelNum("INFO"), filters |-> f] :
        f \in { <<>>,
                <<<<app, NoLevel>>>>,
                <<<<app, SomeLevel("ERROR")>>>>,
                TwoTargets,
                <<<<app, SomeLevel("ERROR")>>, <<app, NoLevel>>>> } }
    \cup { [max_level |-> LevelNum("TRACE"), filters |-> TwoTargets] }

\* Configurations given to init(), and the number of init() calls explored
InitConfigs ==
    { DefaultConfig,
      [max_level |-> LevelNum("DEBUG"), filters |-> <<<<net, NoLevel>>>>] }
MaxInits == 2

\* Filters::is_enabled: empty list allows all, else the target must be listed
\* with no level or with a level that admits the record's
\* Faulty variant: any entry for the target that admits the level suffices
is_enabled_any(level, target) ==
    IF Len(filters) = 0 THEN TRUE
    ELSE \E i \in 1..Len(filters) :
            /\ filters[i][1] = target
            /\ (filters[i][2] = NoLevel \/ LevelNum(level) <= filters[i][2][1])

\* Faulty variant: a threshold admits only the levels strictly below it
is_enabled_strict(level, target) ==
    IF Len(filters) = 0 THEN TRUE
    ELSE IF \E i \in 1..Len(filters) : filters[i][1] = target
         THEN LET idx == CHOOSE i \in 1..Len(filters) :
                            /\ filters[i][1] = target
                            /\ \A j \in 1..(i-1) : filters[j][1] # target
                  lvl == filters[idx][2]
              IN  lvl = NoLevel \/ LevelNum(level) < lvl[1]
         ELSE FALSE

is_enabled(level, target) ==
    IF Len(filters) = 0 THEN TRUE
    ELSE IF \E i \in 1..Len(filters) : filters[i][1] = target
         THEN LET idx == CHOOSE i \in 1..Len(filters) :
                            /\ filters[i][1] = target
                            /\ \A j \in 1..(i-1) : filters[j][1] # target
                  lvl == filters[idx][2]
              IN  lvl = NoLevel \/ LevelNum(level) <= lvl[1]
         ELSE FALSE

\* Logger::enabled of the blocking logger: the same test on the maximum level
\* and on the blocking Logger's own filters (the first entry for the target
\* decides)
BlockingEnabled(level, target) ==
    /\ LevelNum(level) <= max_level
    /\ \/ Len(blocking_filters) = 0
       \/ \E i \in 1..Len(blocking_filters) :
             /\ blocking_filters[i][1] = target
             /\ \A j \in 1..(i - 1) : blocking_filters[j][1] # target
             /\ \/ blocking_filters[i][2] = NoLevel
                \/ LevelNum(level) <= blocking_filters[i][2][1]

\* Faulty variant: only the maximum level is consulted
Enabled_nofilter(level, target) == LevelNum(level) <= max_level

\* Logger::enabled
Enabled(level, target) ==
    LevelNum(level) <= max_level /\ is_enabled(level, target)

\* The pieces write!("[{} {}]: {}\r\n", level, target, args) hands to
\* write_str, in order
Pieces(level, target, msg) ==
    << <<"[">>, LevelStr(level), <<" ">>, target, <<"]", ":", " ">>, msg,
       <<"\r", "\n">> >>

RECURSIVE Concat(_)
Concat(ss) == IF ss = <<>> THEN <<>> ELSE Head(ss) \o Concat(Tail(ss))

\* The full serialisation of a record
Serialize(level, target, msg) == Concat(Pieces(level, target, msg))

\* ------------------------------------------------ buffer and peripheral
\* The engine as one record, so that the calls a handler makes in sequence
\* compose; starts/reclaims count the start_transfer calls that succeeded and
\* the buffers handed back within the call in progress.
M == [buffer |-> buffer, source_buffer |-> source_buffer, ring |-> ring,
      reserved |-> reserved, sent |-> sent, enabled |-> enabled,
      complete |-> complete, interrupt |-> interrupt, panic |-> panic,
      stream |-> stream, starts |-> 0, reclaims |-> 0]

\* What a handler can observe of the engine (recorded in cur and last)
Snap(m) == [buffer |-> m.buffer, source_buffer |-> m.source_buffer,
            ring |-> m.ring, reserved |-> m.reserved, enabled |-> m.enabled,
            complete |-> m.complete, interrupt |-> m.interrupt]

Min(a, b) == IF a <= b THEN a ELSE b

\* Faulty variant: a piece that does not fit whole is dropped whole
write_str_whole(m, bytes) ==
    IF Len(bytes) <= Capacity - Len(m.ring)
    THEN [m EXCEPT !.ring = @ \o bytes, !.stream = @ \o bytes]
    ELSE m

\* Faulty variant: the insertion does not stop at the capacity
write_str_unbounded(m, bytes) ==
    [m EXCEPT !.ring = @ \o bytes, !.stream = @ \o bytes]

\* Faulty variant: a full ring takes the new bytes over its oldest ones
write_str_overwrite(m, bytes) ==
    LET all == m.ring \o bytes
        drop == IF Len(all) > Capacity THEN Len(all) - Capacity ELSE 0
    IN  [m EXCEPT !.ring = SubSeq(all, drop + 1, Len(all)),
                  !.stream = @ \o bytes]

\* Faulty variant: the space of bytes already transferred is never given back
write_str_cumulative(m, bytes) ==
    LET free == IF Len(m.stream) >= Capacity THEN 0
                ELSE Capacity - Len(m.stream)
        kept == SubSeq(bytes, 1, Min(Len(bytes), free))
    IN  [m EXCEPT !.ring = @ \o kept, !.stream = @ \o kept]

\* Circular::insert / WriteHalf::insert behind Writer::write_str: the leading
\* bytes that fit in the free space are appended, the rest are dropped
write_str(m, bytes) ==
    LET free == Capacity - Len(m.ring)
        kept == SubSeq(bytes, 1, Min(Len(bytes), free))
    IN  [m EXCEPT !.ring = @ \o kept, !.stream = @ \o kept]

\* write!(writer, "[{} {}]: {}\r\n", ..): write_str on every piece in turn
\* (the singleton set binds the intermediate buffer to its value)
RECURSIVE write_fmt(_, _)
write_fmt(m, pieces) ==
    IF pieces = <<>> THEN m
    ELSE CHOOSE r \in {write_fmt(w, Tail(pieces)) :
                           w \in {write_str(m, Head(pieces))}} : TRUE

\* Sink::is_transfer_interrupt
is_transfer_interrupt(m) == m.interrupt

\* Sink::transfer_clear_interrupt
transfer_clear_interrupt(m) == [m EXCEPT !.interrupt = FALSE]

\* Sink::is_transfer_complete
is_transfer_complete(m) == m.complete

\* Sink::transfer_complete, the Option it returns
transfer_complete_ret(m) ==
    IF m.complete THEN m.source_buffer ELSE "None"

\* Faulty variant: the read cursor is not advanced past the transferred bytes
transfer_complete_norelease(m) ==
    IF m.complete
    THEN [m EXCEPT !.enabled = FALSE, !.complete = FALSE,
                   !.source_buffer = "None", !.reserved = 0, !.sent = 0,
                   !.reclaims = @ + (IF m.source_buffer = "Some" THEN 1 ELSE 0)]
    ELSE m

\* Faulty variant: the buffer is handed back but the channel keeps its DONE
\* flag and its hold on the buffer
transfer_complete_keep(m) ==
    IF m.complete
    THEN [m EXCEPT !.ring = SubSeq(@, m.reserved + 1, Len(@)),
                   !.reclaims = @ + (IF m.source_buffer = "Some" THEN 1 ELSE 0)]
    ELSE m

\* Sink::transfer_complete, its effect: on completion the channel is disabled,
\* the DONE flag cleared and the buffer released, its read cursor advanced past
\* the bytes the transfer covered
transfer_complete(m) ==
    IF m.complete
    THEN [m EXCEPT !.enabled = FALSE, !.complete = FALSE,
                   !.source_buffer = "None",
                   !.ring = SubSeq(@, m.reserved + 1, Len(@)),
                   !.reserved = 0, !.sent = 0,
                   !.reclaims = @ + (IF m.source_buffer = "Some" THEN 1 ELSE 0)]
    ELSE m

\* Sink::start_transfer: the peripheral refuses a buffer while it holds one or
\* its channel is enabled, and the sink's expect() then panics; otherwise the
\* transfer covers the bytes unread at this moment
start_transfer(m) ==
    IF m.enabled \/ m.source_buffer = "Some"
    THEN [m EXCEPT !.panic = "Start transfer failed"]
    ELSE [m EXCEPT !.source_buffer = "Some", !.reserved = Len(m.ring),
                   !.sent = 0, !.enabled = TRUE, !.complete = FALSE,
                   !.starts = @ + 1]

\* Faulty variant: no write half is handed out once the transfer is complete
write_half_done(m) == IF m.complete THEN "None" ELSE m.source_buffer

\* Sink::write_half, the Option it returns: a handle on the buffer the
\* peripheral holds
write_half(m) == m.source_buffer

\* Option::unwrap on the result of a sink call
unwrap(m, opt) ==
    IF opt = "None" THEN [m EXCEPT !.panic = "unwrap on None"] ELSE m

\* Circular::is_empty
is_empty(m) == Len(m.ring) = 0

\* The engine after a handler's calls, written back to the variables
Commit(m) ==
    /\ buffer' = m.buffer
    /\ source_buffer' = m.source_buffer
    /\ ring' = m.ring
    /\ reserved' = m.reserved
    /\ sent' = m.sent
    /\ enabled' = m.enabled
    /\ complete' = m.complete
    /\ interrupt' = m.interrupt
    /\ panic' = m.panic
    /\ stream' = m.stream
    /\ nstart' = nstart + m.starts
    /\ nreclaim' = nreclaim + m.reclaims

\* ----------------------------------------------------------- the handlers
\* Faulty variant: the record is written but no transfer is started
log_idle_nostart(m, pieces) == write_fmt(m, pieces)

\* Logger::log, first branch: the slot held the buffer, which take() removed
log_idle(m, pieces) ==
    start_transfer(write_fmt([m EXCEPT !.buffer = "None"], pieces))

\* Faulty variant: the transfer is finalized and restarted, the record is not written
log_reclaim_norecord(m, pieces) ==
    LET b == unwrap(transfer_complete(m), transfer_complete_ret(m))
    IN  IF b.panic # "none" THEN b ELSE start_transfer(b)

\* Faulty variant: the record is appended, the restart is left to the next poll()
log_reclaim_defer(m, pieces) ==
    LET b == unwrap(transfer_complete(m), transfer_complete_ret(m))
    IN  IF b.panic # "none" THEN b
        ELSE [write_fmt(b, pieces) EXCEPT !.buffer = "Some"]

\* Faulty variant: the completed transfer is started again without being
\* finalized, the record written behind its bytes
log_reclaim_resend(m, pieces) ==
    LET w == write_fmt(m, pieces)
    IN  [w EXCEPT !.complete = FALSE, !.sent = 0, !.reserved = Len(w.ring),
                  !.starts = @ + 1]

\* Logger::log, second branch: the transfer is complete; finalize it, append
\* the record and schedule the next transfer
log_reclaim(m, pieces) ==
    LET b == unwrap(transfer_complete(m), transfer_complete_ret(m))
    IN  IF b.panic # "none" THEN b ELSE start_transfer(write_fmt(b, pieces))

\* Faulty variant: the record is dropped while a transfer is in flight
log_append_drop(m, pieces) == unwrap(m, write_half(m))

\* Faulty variant: the third branch writes the record without its line ending
log_append_nocrlf(m, pieces) ==
    LET b == unwrap(m, write_half(m))
    IN  IF b.panic # "none" THEN b
        ELSE write_fmt(b, SubSeq(pieces, 1, Len(pieces) - 1))

\* Faulty variant: the third branch starts a transfer after its insertion
log_append_start(m, pieces) ==
    LET b == unwrap(m, write_half(m))
    IN  IF b.panic # "none" THEN b ELSE start_transfer(write_fmt(b, pieces))

\* Faulty variant: the third branch stretches the transfer in flight over the
\* bytes it inserted
log_append_extend(m, pieces) ==
    LET b == unwrap(m, write_half(m))
        w == write_fmt(b, pieces)
    IN  IF b.panic # "none" THEN b ELSE [w EXCEPT !.reserved = Len(w.ring)]

\* Faulty variant: the insertion is skipped when the transfer has completed
\* since the record tested it
log_append_lost(m, pieces) ==
    LET b == unwrap(m, write_half(m))
    IN  IF b.panic # "none" \/ m.complete THEN b ELSE write_fmt(b, pieces)

\* Logger::log, third branch: a transfer is in flight; append through the
\* peripheral's write half
log_append(m, pieces) ==
    LET b == unwrap(m, write_half(m))
    IN  IF b.panic # "none" THEN b ELSE write_fmt(b, pieces)

\* Faulty variant: the latch is left as it is
poll_clear_never(m) == m

\* poll(), the latch: cleared when pending
poll_clear(m) ==
    IF is_transfer_interrupt(m) THEN transfer_clear_interrupt(m) ELSE m

\* Faulty variant: an empty reclaimed buffer is dropped instead of stored in the slot
poll_reclaim_drop(m) ==
    IF is_transfer_complete(m)
    THEN LET b == unwrap(transfer_complete(m), transfer_complete_ret(m))
         IN  IF b.panic # "none" THEN b
             ELSE IF ~is_empty(b) THEN start_transfer(b)
             ELSE b
    ELSE m

\* Faulty variant: the reclaimed buffer is always stored, pending bytes are not sent
poll_reclaim_norestart(m) ==
    IF is_transfer_complete(m)
    THEN LET b == unwrap(transfer_complete(m), transfer_complete_ret(m))
         IN  IF b.panic # "none" THEN b ELSE [b EXCEPT !.buffer = "Some"]
    ELSE m

\* Faulty variant: a transfer is started whenever none is in flight
poll_reclaim_spurious(m) ==
    IF is_transfer_complete(m)
    THEN LET b == unwrap(transfer_complete(m), transfer_complete_ret(m))
         IN  IF b.panic # "none" THEN b ELSE start_transfer(b)
    ELSE IF m.buffer = "Some" THEN start_transfer([m EXCEPT !.buffer = "None"])
    ELSE m

\* Faulty variant: the buffer is reclaimed without the completion test
poll_reclaim_eager(m) ==
    IF m.enabled
    THEN LET b == unwrap(transfer_complete(m), transfer_complete_ret(m))
         IN  IF b.panic # "none" THEN b
             ELSE IF ~is_empty(b) THEN start_transfer(b)
             ELSE [b EXCEPT !.buffer = "Some"]
    ELSE m

\* Faulty variant: the completion test reads the interrupt latch, which poll()
\* has just cleared
poll_reclaim_latch(m) ==
    IF is_transfer_interrupt(m)
    THEN LET b == unwrap(transfer_complete(m), transfer_complete_ret(m))
         IN  IF b.panic # "none" THEN b
             ELSE IF ~is_empty(b) THEN start_transfer(b)
             ELSE [b EXCEPT !.buffer = "Some"]
    ELSE m

\* Faulty variant: the reclaimed buffer goes back to the slot without the
\* is_empty() test
poll_reclaim_store(m) ==
    IF is_transfer_complete(m)
    THEN LET b == unwrap(transfer_complete(m), transfer_complete_ret(m))
         IN  IF b.panic # "none" THEN b
             ELSE [b EXCEPT !.buffer = "Some"]
    ELSE m

\* poll(), the completion test: reclaim the buffer, then restart the transfer
\* when bytes are pending or put the buffer back in the slot
poll_reclaim(m) ==
    IF is_transfer_complete(m)
    THEN LET b == unwrap(transfer_complete(m), transfer_complete_ret(m))
         IN  IF b.panic # "none" THEN b
             ELSE IF ~is_empty(b) THEN start_transfer(b)
             ELSE [b EXCEPT !.buffer = "Some"]
    ELSE m

\* Faulty variant: the two results are exchanged
poll_ret_swapped(m) == IF m.buffer = "Some" THEN "Active" ELSE "Idle"

\* poll(), its result
poll_ret(m) == IF m.buffer = "Some" THEN "Idle" ELSE "Active"

\* The result of the latest poll() with no enabled record since ("none" when
\* an enabled record came after it, or before any poll)
PrevRet == IF last.op = "log" /\ ~last.en THEN last.prev ELSE last.ret

\* The record of a finished call.  entry: the engine when the call entered its
\* critical section; pre: the engine at the call's decision (for log the
\* entry, for poll the completion test); post: the engine when it returned;
\* prev: PrevRet when the call began.
Call(op, en, bytes, entry, pre, m, ret) ==
    [op |-> op, en |-> en, bytes |-> bytes, entry |-> entry, pre |-> pre,
     post |-> Snap(m), starts |-> m.starts, reclaims |-> m.reclaims,
     panic |-> m.panic, ret |-> ret, prev |-> PrevRet,
     level |-> "none", target |-> <<>>]

NoSnap == [buffer |-> "None", source_buffer |-> "None", ring |-> <<>>,
           reserved |-> 0, enabled |-> FALSE, complete |-> FALSE,
           interrupt |-> FALSE]

NoCall == [op |-> "none", en |-> FALSE, bytes |-> <<>>, entry |-> NoSnap,
           pre |-> NoSnap, post |-> NoSnap, starts |-> 0, reclaims |-> 0,
           panic |-> "none", ret |-> "none", prev |-> "none",
           level |-> "none", target |-> <<>>]

NoCur == [pieces |-> <<>>, entry |-> NoSnap, pre |-> NoSnap,
          level |-> "none", target |-> <<>>, msg |-> <<>>]

\* The history entry of a record written in a branch of log(): kept is the
\* number of bytes the buffer took, the growth of the retained stream, and
\* room the free space the call left
Rec(level, target, msg, branch, bytes, m) ==
    [level |-> level, target |-> target, msg |-> msg, branch |-> branch,
     bytes |-> bytes, kept |-> Len(m.stream) - Len(stream),
     room |-> Capacity - Len(m.ring)]

\* ------------------------------------------------------------ the actions
Init ==
    /\ buffer = "Some"
    /\ source_buffer = "None"
    /\ ring = <<>>
    /\ reserved = 0
    /\ sent = 0
    /\ enabled = FALSE
    /\ complete = FALSE
    /\ interrupt = FALSE
    /\ int_on_completion \in BOOLEAN
    /\ panic = "none"
    /\ wire = <<>>
    /\ pc = "run"
    /\ cur = NoCur
    /\ last = NoCall
    /\ stream = <<>>
    /\ full = <<>>
    /\ recs = <<>>
    /\ nlog = 0
    /\ logger = "Some"
    /\ log_set = "dma"
    /\ max_level = DefaultConfig.max_level
    /\ filters = DefaultConfig.filters
    /\ taken = TRUE
    /\ byob = FALSE
    /\ ninit = 1
    /\ nstart = 0
    /\ nreclaim = 0
    /\ primask = FALSE
    /\ ctx = "thread"
    /\ tx_fifo = <<>>
    /\ frames = <<>>
    /\ blocking_logger = "None"
    /\ blocking_filters = <<>>
    /\ nbinit = 0

\* Faulty variant: the closure runs with interrupts left as they were
interrupt_free_unmasked == primask

\* interrupt::free(|cs| ..): interrupts are masked while the closure runs
interrupt_free == TRUE

\* The contexts a call may be made from: thread mode, an interrupt handler,
\* the handler of the DMA channel's completion interrupt
Contexts == {"thread", "isr", "dma_isr"}

\* When the core lets a context make a call: thread mode runs when no call is
\* in progress; a handler is entered when interrupts are not masked, the DMA
\* channel's handler when moreover its interrupt is pending
CanEnter(c) ==
    CASE c = "thread"  -> pc = "run"
      [] c = "isr"     -> ~primask
      [] c = "dma_isr" -> ~primask /\ interrupt

\* log(record) from context c, up to its return or, in the third branch, up
\* to the write_half() insertion
LogIn(c, level, target, msg) ==
    LET pieces == Pieces(level, target, msg)
        bytes == Concat(pieces)
        en == Enabled(level, target)
    IN
    /\ CanEnter(c)
    /\ ctx' = c
    /\ panic = "none"
    /\ log_set = "dma"
    /\ nlog < MaxLogs
    /\ nlog' = nlog + 1
    /\ full' = IF en /\ (buffer = "Some" \/ is_transfer_complete(M))
               THEN full \o bytes ELSE full
    /\ UNCHANGED <<wire, int_on_completion, regvars, blkvars>>
    /\ primask' = IF en /\ buffer = "None" /\ ~is_transfer_complete(M)
                  THEN interrupt_free ELSE primask
    /\ IF ~en
       THEN /\ Commit(M)
            /\ last' = [Call("log", FALSE, <<>>, Snap(M), Snap(M), M, "none")
                           EXCEPT !.level = level, !.target = target]
            /\ UNCHANGED <<pc, cur, recs>>
       ELSE IF buffer = "Some"
       THEN /\ \E m \in {log_idle(M, pieces)} :
                  /\ Commit(m)
                  /\ last' = [Call("log", TRUE, bytes, Snap(M), Snap(M), m, "none")
                                 EXCEPT !.level = level, !.target = target]
                  /\ recs' = Append(recs, Rec(level, target, msg, "idle", bytes, m))
            /\ UNCHANGED <<pc, cur>>
       ELSE IF is_transfer_complete(M)
       THEN /\ \E m \in {log_reclaim(M, pieces)} :
                  /\ Commit(m)
                  /\ last' = [Call("log", TRUE, bytes, Snap(M), Snap(M), m, "none")
                                 EXCEPT !.level = level, !.target = target]
                  /\ recs' = Append(recs, Rec(level, target, msg, "reclaim", bytes, m))
            /\ UNCHANGED <<pc, cur>>
       ELSE /\ Commit(M)
            /\ pc' = "log_append"
            /\ cur' = [pieces |-> pieces, entry |-> Snap(M), pre |-> Snap(M),
                       level |-> level, target |-> target, msg |-> msg]
            /\ UNCHANGED <<last, recs>>

\* log(record) from thread mode
Log(level, target, msg) == LogIn("thread", level, target, msg)

\* Faulty variant: the third branch waits for the transfer to complete before
\* it inserts
LogAppend_wait ==
    /\ pc = "log_append"
    /\ panic = "none"
    /\ complete
    /\ \E m \in {log_append(M, cur.pieces)} :
          /\ Commit(m)
          /\ last' = [Call("log", TRUE, Concat(cur.pieces), cur.entry, cur.pre,
                           m, "none")
                         EXCEPT !.level = cur.level, !.target = cur.target]
          /\ recs' = Append(recs, Rec(cur.level, cur.target, cur.msg, "append",
                                      Concat(cur.pieces), m))
    /\ full' = full \o Concat(cur.pieces)
    /\ pc' = "run"
    /\ cur' = NoCur
    /\ primask' = FALSE
    /\ UNCHANGED <<wire, int_on_completion, nlog, regvars, ctx, blkvars>>

\* log(record), third branch continued: the insertion through write_half(),
\* and the end of the critical section
LogAppend ==
    /\ pc = "log_append"
    /\ panic = "none"
    /\ \E m \in {log_append(M, cur.pieces)} :
          /\ Commit(m)
          /\ last' = [Call("log", TRUE, Concat(cur.pieces), cur.entry, cur.pre,
                           m, "none")
                         EXCEPT !.level = cur.level, !.target = cur.target]
          /\ recs' = Append(recs, Rec(cur.level, cur.target, cur.msg, "append",
                                      Concat(cur.pieces), m))
    /\ full' = full \o Concat(cur.pieces)
    /\ pc' = "run"
    /\ cur' = NoCur
    /\ primask' = FALSE
    /\ UNCHANGED <<wire, int_on_completion, nlog, regvars, ctx, blkvars>>

\* Faulty variant: poll() goes on without a registered logger
expect_logger_lenient(m) == m

\* poll(): logger.as_mut().expect("User has registered a logger")
expect_logger(m) ==
    IF logger = "None"
    THEN [m EXCEPT !.panic = "User has registered a logger"]
    ELSE m

\* poll() from context c, up to the completion test; it panics at once when
\* no logger was registered
PollEnterIn(c) ==
    /\ CanEnter(c)
    /\ ctx' = c
    /\ panic = "none"
    /\ IF expect_logger(M).panic # "none"
       THEN /\ Commit(expect_logger(M))
            /\ UNCHANGED <<pc, cur, primask>>
       ELSE /\ Commit(poll_clear(M))
            /\ pc' = "poll_check"
            /\ cur' = [NoCur EXCEPT !.entry = Snap(M), !.pre = Snap(M)]
            /\ primask' = interrupt_free
    /\ UNCHANGED <<wire, int_on_completion, last, full, recs, nlog, regvars,
                   blkvars>>

\* poll() from thread mode
PollEnter == PollEnterIn("thread")

\* poll() continued: the completion test, the reclaim and the result
PollCheck ==
    /\ pc = "poll_check"
    /\ panic = "none"
    /\ \E m \in {poll_reclaim(M)} :
          /\ Commit(m)
          /\ last' = Call("poll", FALSE, <<>>, cur.entry, Snap(M), m,
                          poll_ret(m))
    /\ pc' = "run"
    /\ cur' = NoCur
    /\ primask' = FALSE
    /\ UNCHANGED <<wire, int_on_completion, full, recs, nlog, regvars, ctx,
                   blkvars>>

\* The DMA engine moves the next byte of the transfer to the UART; with the
\* last byte the channel raises DONE and, when so configured, the interrupt
HwStep ==
    /\ enabled
    /\ ~complete
    /\ source_buffer = "Some"
    /\ sent < reserved
    /\ sent' = sent + 1
    /\ wire' = Append(wire, ring[sent + 1])
    /\ complete' = (sent + 1 = reserved)
    /\ interrupt' = (interrupt \/ (sent + 1 = reserved /\ int_on_completion))
    /\ UNCHANGED <<buffer, source_buffer, ring, reserved, enabled,
                   int_on_completion, panic, pc, cur, last, stream, full, recs,
                   nlog, regvars, nstart, nreclaim, primask, ctx, blkvars>>

Next ==
    \/ \E level \in InLevels, target \in InTargets, msg \in InMessages :
           Log(level, target, msg)
    \/ LogAppend
    \/ PollEnter
    \/ PollCheck
    \/ HwStep

Spec == Init /\ [][Next]_vars

\* The same engine fed records that do not fit the buffer
BigNext ==
    \/ \E level \in InLevels, target \in InTargets, msg \in BigMessages :
           Log(level, target, msg)
    \/ LogAppend
    \/ PollEnter
    \/ PollCheck
    \/ HwStep

BigSpec == Init /\ [][BigNext]_vars

\* The same engine installed with each of the filter configurations, fed
\* records of every level and target while the hardware runs
FilterInit ==
    /\ Init!1 /\ Init!2 /\ Init!3 /\ Init!4 /\ Init!5 /\ Init!6 /\ Init!7
    /\ Init!8 /\ Init!9 /\ Init!10 /\ Init!11 /\ Init!12 /\ Init!13
    /\ Init!14 /\ Init!15 /\ Init!16 /\ Init!17 /\ Init!18 /\ Init!19
    /\ Init!20
    /\ \E cfg \in FilterConfigs :
          /\ max_level = cfg.max_level
          /\ filters = cfg.filters
    /\ Init!23 /\ Init!24 /\ Init!25 /\ Init!26 /\ Init!27 /\ Init!28
    /\ Init!29 /\ Init!30 /\ Init!31 /\ Init!32 /\ Init!33 /\ Init!34

FilterNext ==
    \/ \E level \in FilterLevels, target \in FilterTargets :
           Log(level, target, <<"a">>)
    \/ LogAppend
    \/ HwStep

FilterSpec == FilterInit /\ [][FilterNext]_vars

\* The program before init(): no engine, no registered logger, the log
\* crate's maximum level at Off
Boot ==
    /\ buffer = "None"
    /\ source_buffer = "None"
    /\ ring = <<>>
    /\ reserved = 0
    /\ sent = 0
    /\ enabled = FALSE
    /\ complete = FALSE
    /\ interrupt = FALSE
    /\ int_on_completion \in BOOLEAN
    /\ panic = "none"
    /\ wire = <<>>
    /\ pc = "run"
    /\ cur = NoCur
    /\ last = NoCall
    /\ stream = <<>>
    /\ full = <<>>
    /\ recs = <<>>
    /\ nlog = 0
    /\ logger = "None"
    /\ log_set = "none"
    /\ max_level = 0
    /\ filters = <<>>
    /\ taken = FALSE
    /\ byob \in BOOLEAN
    /\ ninit = 0
    /\ nstart = 0
    /\ nreclaim = 0
    /\ primask = FALSE
    /\ ctx = "thread"
    /\ tx_fifo = <<>>
    /\ frames = <<>>
    /\ blocking_logger = "None"
    /\ blocking_filters = <<>>
    /\ nbinit = 0

\* Faulty variant: the engine is made with an empty slot
new_inner_none(m) == [m EXCEPT !.buffer = "None"]

\* init(): Inner { sink: tx.into_sink(channel), buffer: Some(buffer) }
new_inner(m) == [m EXCEPT !.buffer = "Some"]

\* Faulty variant: the maximum level is set whether or not set_logger accepted
set_max_level_always(config) == config.max_level

\* init(): ::log::set_logger(logger).map(|_| ::log::set_max_level(..)); the
\* level is set only when the log crate had no logger and took this one
set_max_level(config) ==
    IF log_set = "none" THEN config.max_level ELSE max_level

\* Faulty variant: every init() makes a new engine
logger_is_none_always == TRUE

\* init(): if logger.is_none(), the test that guards the store of the engine
logger_is_none == logger = "None"

\* init(tx, channel, config): the buffer is made first (from the static
\* BUFFER unless built with "byob"), then the LOGGER is filled when it is
\* empty, then the logger is handed to the log crate
DmaInit(config) ==
    /\ pc = "run"
    /\ panic = "none"
    /\ ninit < MaxInits
    /\ ninit' = ninit + 1
    /\ UNCHANGED <<source_buffer, ring, reserved, sent, enabled, complete,
                   interrupt, int_on_completion, wire, pc, cur, stream, full,
                   recs, nlog, byob, nstart, nreclaim, primask, ctx, blkvars,
                   blocking_logger, blocking_filters, nbinit>>
    /\ IF ~byob /\ taken
       THEN /\ panic' = "unwrap on Err BufferTaken"
            /\ UNCHANGED <<buffer, last, logger, log_set, max_level, filters,
                           taken>>
       ELSE /\ panic' = panic
            /\ taken' = (taken \/ ~byob)
            /\ logger' = "Some"
            /\ buffer' = IF logger_is_none THEN new_inner(M).buffer
                                           ELSE buffer
            /\ filters' = IF logger_is_none THEN config.filters ELSE filters
            /\ log_set' = IF log_set = "none" THEN "dma" ELSE log_set
            /\ max_level' = set_max_level(config)
            /\ last' = Call("init", FALSE, <<>>, Snap(M), Snap(M),
                            [M EXCEPT !.buffer = buffer'],
                            IF log_set = "none" THEN "Ok" ELSE "Err")

\* blocking::init(tx, config): its own LOGGER static is filled when empty,
\* then the logger is handed to the log crate
blocking_init(config) ==
    /\ pc = "run"
    /\ panic = "none"
    /\ nbinit < MaxInits
    /\ nbinit' = nbinit + 1
    /\ blocking_logger' = "Some"
    /\ blocking_filters' = IF blocking_logger = "None" THEN config.filters
                                                       ELSE blocking_filters
    /\ log_set' = IF log_set = "none" THEN "blocking" ELSE log_set
    /\ max_level' = set_max_level(config)
    /\ last' = Call("blocking_init", FALSE, <<>>, Snap(M), Snap(M), M,
                    IF log_set = "none" THEN "Ok" ELSE "Err")
    /\ UNCHANGED <<buffer, source_buffer, ring, reserved, sent, enabled,
                   complete, interrupt, int_on_completion, panic, wire, pc,
                   cur, stream, full, recs, nlog, logger, filters, taken,
                   byob, ninit, nstart, nreclaim, primask, ctx, blkvars>>

LifeNext ==
    \/ \E config \in InitConfigs : DmaInit(config)
    \/ \E level \in InLevels, target \in InTargets :
           Log(level, target, <<"a">>)
    \/ LogAppend
    \/ PollEnter
    \/ PollCheck
    \/ HwStep

LifeSpec == Boot /\ [][LifeNext]_vars

\* The program from before any init(), with both loggers' init() callable
RegNext ==
    \/ \E config \in InitConfigs : DmaInit(config)
    \/ \E config \in InitConfigs : blocking_init(config)
    \/ Log("INFO", app, <<"a">>)
    \/ LogAppend
    \/ PollEnter
    \/ PollCheck
    \/ HwStep

RegSpec == Boot /\ [][RegNext]_vars

\* The same engine used from thread mode and from interrupt handlers
CtxNext ==
    \/ \E c \in Contexts, level \in InLevels, target \in InTargets :
           LogIn(c, level, target, <<"a">>)
    \/ LogAppend
    \/ \E c \in Contexts : PollEnterIn(c)
    \/ PollCheck
    \/ HwStep

CtxSpec == Init /\ [][CtxNext]_vars

\* Faulty variant: the latch is cleared on the way out of poll()
poll_exit_clear(m) == transfer_clear_interrupt(m)

\* poll(), after the completion test: match &logger.buffer reads the slot and
\* touches neither the peripheral nor the latch
poll_exit(m) == m

\* poll(), the completion test and the reclaim alone, for the runs in which
\* the hardware may also step between the test and poll()'s return
PollTest ==
    /\ pc = "poll_check"
    /\ panic = "none"
    /\ \E m \in {poll_reclaim(M)} :
          /\ Commit(m)
          /\ cur' = [pieces |-> <<>>, entry |-> cur.entry, pre |-> Snap(M),
                     level |-> "none", target |-> <<>>, msg |-> <<>>,
                     starts |-> m.starts, reclaims |-> m.reclaims]
    /\ pc' = "poll_return"
    /\ UNCHANGED <<wire, int_on_completion, last, full, recs, nlog, regvars,
                   primask, ctx, blkvars>>

\* poll(), its result and the end of its critical section
PollReturn ==
    /\ pc = "poll_return"
    /\ panic = "none"
    /\ \E m \in {poll_exit(M)} :
          /\ Commit(m)
          /\ last' = Call("poll", FALSE, <<>>, cur.entry, cur.pre,
                          [m EXCEPT !.starts = cur.starts,
                                    !.reclaims = cur.reclaims],
                          poll_ret(m))
    /\ pc' = "run"
    /\ cur' = NoCur
    /\ primask' = FALSE
    /\ UNCHANGED <<wire, int_on_completion, full, recs, nlog, regvars, ctx,
                   blkvars>>

\* The engine driven by the completion interrupt handler, by thread mode and
\* by other handlers, the hardware stepping at every point of poll()
RaceNext ==
    \/ \E c \in Contexts, level \in InLevels, target \in InTargets :
           LogIn(c, level, target, <<"a">>)
    \/ LogAppend
    \/ \E c \in Contexts : PollEnterIn(c)
    \/ PollTest
    \/ PollReturn
    \/ HwStep

RaceSpec == Init /\ [][RaceNext]_vars

\* ------------------------------------------------- the blocking logger
\* Slots of the UART transmit FIFO
FifoSize == 2

\* Faulty variant: a byte that finds the FIFO full is dropped
bwrite_all_nowait(fifo, bytes) ==
    IF Len(fifo) < FifoSize
    THEN [fifo |-> Append(fifo, Head(bytes)), rest |-> Tail(bytes),
          blocked |-> FALSE]
    ELSE [fifo |-> fifo, rest |-> Tail(bytes), blocked |-> FALSE]

\* blocking Sink::write_str, uart.bwrite_all: the next byte is put in the
\* transmit FIFO when it has room; otherwise the call waits
bwrite_all(fifo, bytes) ==
    IF Len(fifo) < FifoSize
    THEN [fifo |-> Append(fifo, Head(bytes)), rest |-> Tail(bytes),
          blocked |-> FALSE]
    ELSE [fifo |-> fifo, rest |-> bytes, blocked |-> TRUE]

\* The blocking logger installed with the default configuration
BlockingInit ==
    /\ Boot!1 /\ Boot!2 /\ Boot!3 /\ Boot!4 /\ Boot!5 /\ Boot!6 /\ Boot!7
    /\ Boot!8 /\ Boot!9 /\ Boot!10 /\ Boot!11 /\ Boot!12 /\ Boot!13
    /\ Boot!14 /\ Boot!15 /\ Boot!16 /\ Boot!17 /\ Boot!18
    /\ logger = "None"
    /\ log_set = "blocking"
    /\ max_level = DefaultConfig.max_level
    /\ filters = <<>>
    /\ taken = FALSE
    /\ byob = FALSE
    /\ ninit = 0
    /\ Boot!26 /\ Boot!27 /\ Boot!28 /\ Boot!29 /\ Boot!30 /\ Boot!31
    /\ blocking_logger = "Some"
    /\ blocking_filters = DefaultConfig.filters
    /\ nbinit = 1

dmavars == <<buffer, source_buffer, ring, reserved, sent, enabled, complete,
             interrupt, int_on_completion, panic, cur, last, stream, nstart,
             nreclaim>>

\* blocking log(record) from context c, up to the start of the write inside
\* its critical section
BlockingLog(c, level, target, msg) ==
    /\ CanEnter(c)
    /\ ctx' = c
    /\ panic = "none"
    /\ log_set = "blocking"
    /\ nlog < MaxLogs
    /\ nlog' = nlog + 1
    /\ IF BlockingEnabled(level, target)
       THEN /\ frames' = <<Serialize(level, target, msg)>> \o frames
            /\ primask' = interrupt_free
            /\ pc' = "bwrite"
            /\ full' = full \o Serialize(level, target, msg)
            /\ recs' = Append(recs,
                   [level |-> level, target |-> target, msg |-> msg,
                    branch |-> "blocking", ctx |-> c,
                    bytes |-> Serialize(level, target, msg),
                    kept |-> Len(Serialize(level, target, msg)), room |-> 0])
       ELSE UNCHANGED <<frames, primask, pc, full, recs>>
    /\ UNCHANGED <<dmavars, regvars, wire, tx_fifo>>

\* blocking log(record) continued: one more byte of the record
BlockingWrite ==
    /\ frames # <<>>
    /\ Head(frames) # <<>>
    /\ \E w \in {bwrite_all(tx_fifo, Head(frames))} :
          /\ ~w.blocked
          /\ tx_fifo' = w.fifo
          /\ frames' = <<w.rest>> \o Tail(frames)
    /\ UNCHANGED <<dmavars, regvars, wire, pc, full, recs, nlog, primask, ctx>>

\* blocking log(record) continued: the record is written, the critical
\* section ends and the call returns
BlockingReturn ==
    /\ frames # <<>>
    /\ Head(frames) = <<>>
    /\ frames' = Tail(frames)
    /\ pc' = IF Tail(frames) = <<>> THEN "run" ELSE pc
    /\ primask' = FALSE
    /\ UNCHANGED <<dmavars, regvars, wire, tx_fifo, full, recs, nlog, ctx>>

\* The UART shifts the oldest byte of the transmit FIFO out
UartStep ==
    /\ tx_fifo # <<>>
    /\ wire' = Append(wire, Head(tx_fifo))
    /\ tx_fifo' = Tail(tx_fifo)
    /\ UNCHANGED <<dmavars, regvars, pc, full, recs, nlog, primask, ctx,
                   frames>>

BlockingNext ==
    \/ \E c \in {"thread", "isr"}, level \in InLevels, target \in InTargets,
          msg \in BigMessages : BlockingLog(c, level, target, msg)
    \/ BlockingWrite
    \/ BlockingReturn
    \/ UartStep

BlockingSpec == BlockingInit /\ [][BlockingNext]_vars

\* ------------------------------------------------------------- type check
TypeOK ==
    /\ buffer \in {"Some", "None"}
    /\ source_buffer \in {"Some", "None"}
    /\ Len(ring) <= Capacity
    /\ reserved \in 0..Len(ring)
    /\ sent \in 0..reserved
    /\ pc \in {"run", "poll_check", "poll_return", "log_append", "bwrite"}
    /\ panic \in {"none", "User has registered a logger",
                   "unwrap on Err BufferTaken"}
    /\ logger \in {"None", "Some"}
    /\ log_set \in {"none", "dma", "blocking"}
    /\ Len(tx_fifo) <= FifoSize
    /\ max_level \in 0..Len(Levels)

\* The scheduling the liveness claims assume: the DMA engine keeps moving
\* bytes, a handler that entered its critical section runs to its end, and
\* poll() keeps being called
FairSpec ==
    /\ Spec
    /\ WF_vars(HwStep)
    /\ WF_vars(LogAppend)
    /\ WF_vars(PollEnter)
    /\ WF_vars(PollCheck)

\* ------------------------------------------------------------- the claims
IsPrefix(s, t) == Len(s) <= Len(t) /\ SubSeq(t, 1, Len(s)) = s

\* The leading bytes of a record that fit into free bytes of space
Retained(bytes, free) == SubSeq(bytes, 1, Min(Len(bytes), free))

\* The bytes of a snapshot's buffer that its transfer does not cover
Queued(snap) == SubSeq(snap.ring, snap.reserved + 1, Len(snap.ring))

Idle == buffer = "Some" /\ source_buffer = "None"
Active == buffer = "None" /\ source_buffer = "Some"

\* C1: in every reachable state the buffer has exactly one holder: the
\* logger's slot (Idle) or the transfer engine (Active), never both and never
\* neither.
C1_ExactlyOneHolder == Idle \/ Active

\* A poll() has handed the buffer of a completed transfer back to the slot.
C1_Witness ==
    /\ last.op = "poll" /\ last.reclaims = 1 /\ last.pre.source_buffer = "Some"
    /\ Idle /\ Len(wire) > 0

\* C2: when the serialised records together fit the capacity, every record is
\* retained whole, the transferred output is at all times a prefix of the
\* records in call order, and under fair servicing it eventually is, and
\* stays, all of them.
C2_AllDelivered ==
    /\ [](Len(full) <= Capacity => stream = full /\ IsPrefix(wire, full))
    /\ <>[](Len(full) <= Capacity => wire = full)

\* Two records that fit together have both been transferred.
C2_Witness ==
    /\ Len(full) <= Capacity
    /\ \E a, b \in InMessages :
          wire = Serialize("INFO", <<"a", "p", "p">>, a)
                 \o Serialize("INFO", <<"a", "p", "p">>, b)

C4_IdleRecordStarts ==
    (last.op = "log" /\ last.en /\ (last.pre.buffer = "Some" \/ last.prev = "Idle"))
    => /\ last.pre.buffer = "Some"
       /\ last.panic = "none"
       /\ last.starts = 1 /\ last.reclaims = 0
       /\ last.post.buffer = "None" /\ last.post.source_buffer = "Some"
       /\ last.post.enabled /\ ~last.post.complete
       /\ last.post.ring = last.pre.ring
                \o Retained(last.bytes, Capacity - Len(last.pre.ring))
       /\ last.post.reserved = Len(last.post.ring)
       /\ last.post.reserved > 0

\* An enabled record right after a poll() that drained a transfer returned
\* Idle.
C4_Witness ==
    /\ last.op = "log" /\ last.en /\ last.prev = "Idle" /\ Len(wire) > 0
    /\ last.starts = 1

\* C5: an enabled record call that finds the slot Active and the transfer
\* complete reclaims the buffer, appends the record after the bytes still
\* queued and starts a transfer over both, in one step of the critical
\* section: the slot is Active before and after, with no state in between.
C5_CompleteRecordRestarts ==
    [][(pc = "run" /\ buffer = "None" /\ complete
            /\ nlog' = nlog + 1 /\ full' # full)
       => /\ pc' = "run" /\ panic' = "none"
          /\ last'.op = "log" /\ last'.reclaims = 1 /\ last'.starts = 1
          /\ buffer' = "None" /\ source_buffer' = "Some"
          /\ enabled' /\ ~complete'
          /\ ring' = SubSeq(ring, reserved + 1, Len(ring))
                 \o Retained(last'.bytes, Capacity - (Len(ring) - reserved))
          /\ reserved' = Len(ring') /\ sent' = 0]_vars

\* A record took the reclaim branch with bytes queued behind the completed
\* transfer.
C5_Witness ==
    /\ last.op = "log" /\ last.en /\ last.pre.buffer = "None"
    /\ last.pre.complete /\ Queued(last.pre) # <<>>
    /\ last.reclaims = 1 /\ last.starts = 1

\* C6: an enabled record call that finds the slot Active and the transfer not
\* complete appends the record behind the bytes already in the buffer, starts
\* no transfer, reclaims nothing and leaves the slot Active and the transfer's
\* extent as it was.
C6_ActiveRecordAppends ==
    (last.op = "log" /\ last.en /\ last.pre.buffer = "None" /\ ~last.pre.complete)
    => /\ last.panic = "none"
       /\ last.starts = 0 /\ last.reclaims = 0
       /\ last.post.buffer = "None" /\ last.post.source_buffer = "Some"
       /\ last.post.enabled
       /\ last.post.reserved = last.pre.reserved
       /\ last.post.ring = last.pre.ring
                \o Retained(last.bytes, Capacity - Len(last.pre.ring))

\* A record was appended behind a transfer in flight.
C6_Witness ==
    /\ last.op = "log" /\ last.en /\ last.pre.buffer = "None"
    /\ ~last.pre.complete /\ Len(last.post.ring) > Len(last.pre.ring)

\* C7: a poll() that finds the transfer complete reclaims the buffer; with
\* bytes left in it, it starts a transfer over them and the slot stays
\* Active; with none, it stores the buffer in the slot and the state is Idle.
C7_PollReclaims ==
    (last.op = "poll" /\ last.pre.complete)
    => /\ last.panic = "none"
       /\ last.reclaims = 1
       /\ last.post.ring = Queued(last.pre)
       /\ ~last.post.complete
       /\ IF Queued(last.pre) # <<>>
          THEN /\ last.starts = 1
               /\ last.post.buffer = "None" /\ last.post.source_buffer = "Some"
               /\ last.post.enabled
               /\ last.post.reserved = Len(last.post.ring)
          ELSE /\ last.starts = 0
               /\ last.post.buffer = "Some" /\ last.post.source_buffer = "None"
               /\ ~last.post.enabled

\* A poll() found the transfer complete and restarted it for appended bytes.
C7_Witness ==
    /\ last.op = "poll" /\ last.pre.complete /\ Queued(last.pre) # <<>>
    /\ last.starts = 1

\* C8: poll() returns Idle exactly when the slot holds the buffer at the end
\* of the call, and Active exactly when the transfer engine holds it.
C8_PollResult ==
    last.op = "poll"
    => /\ last.ret \in {"Idle", "Active"}
       /\ last.ret = "Idle" <=> last.post.buffer = "Some"
       /\ last.ret = "Active" <=> last.post.source_buffer = "Some"

\* A poll() returned Active after it restarted the transfer.
C8_Witness ==
    last.op = "poll" /\ last.ret = "Active" /\ last.starts = 1

\* C9: a poll() that begins in the Idle state with an empty buffer returns
\* Idle, starts and reclaims nothing, and leaves slot, buffer and peripheral
\* as they were; so any number of consecutive idle polls do.
C9_IdlePollIdempotent ==
    (last.op = "poll" /\ last.entry.buffer = "Some" /\ last.entry.ring = <<>>)
    => /\ last.ret = "Idle"
       /\ last.panic = "none"
       /\ last.starts = 0 /\ last.reclaims = 0
       /\ last.post.buffer = "Some" /\ last.post.source_buffer = "None"
       /\ last.post.ring = <<>>
       /\ last.post.enabled = last.entry.enabled
       /\ last.post.complete = last.entry.complete
       /\ last.post.reserved = last.entry.reserved
       /\ last.post = last.pre

\* A second consecutive poll() in the Idle state, after a transfer was
\* drained.
C9_Witness ==
    /\ last.op = "poll" /\ last.prev = "Idle" /\ last.ret = "Idle"
    /\ last.entry.buffer = "Some" /\ Len(wire) > 0

\* C10: a poll() that finds the transfer active and not complete reclaims
\* nothing, starts nothing, leaves slot, buffer and transfer unchanged and
\* returns Active.
C10_ActivePollNoop ==
    (last.op = "poll" /\ last.pre.buffer = "None" /\ ~last.pre.complete)
    => /\ last.ret = "Active"
       /\ last.panic = "none"
       /\ last.starts = 0 /\ last.reclaims = 0
       /\ last.post = last.pre
       /\ last.post.buffer = last.entry.buffer
       /\ last.post.source_buffer = last.entry.source_buffer
       /\ last.post.ring = last.entry.ring
       /\ last.post.reserved = last.entry.reserved
       /\ last.post.enabled = last.entry.enabled

\* A poll() ran while a transfer with bytes appended behind it was in flight.
C10_Witness ==
    /\ last.op = "poll" /\ last.pre.buffer = "None" /\ ~last.pre.complete
    /\ last.pre.enabled /\ Queued(last.pre) # <<>>

\* C11: drain terminates. Records stop being accepted (a run makes finitely
\* many record calls) and the hardware finishes every transfer it was given;
\* then the loop that calls poll() gets Idle after finitely many calls and
\* keeps getting it, with every retained byte transferred, also when records
\* were appended to the tail of a transfer in flight.
C11_DrainTerminates ==
    <>[](/\ last.op = "poll" /\ last.ret = "Idle"
         /\ Idle /\ ring = <<>> /\ wire = stream)

\* A poll() returned Idle after a record had been appended to a transfer in
\* flight and all its retained bytes went out.
C11_Witness ==
    /\ last.op = "poll" /\ last.ret = "Idle" /\ Idle
    /\ wire = stream
    /\ \E i \in 1..Len(recs) : recs[i].branch = "append" /\ recs[i].kept > 0

\* C12: whenever the buffer is in the slot, and so whenever poll() returns
\* Idle, it holds no unread bytes and every byte the records retained has been
\* transferred by a transfer the hardware completed; the slot never holds
\* bytes that wait with no transfer in flight.
C12_IdleMeansDrained ==
    /\ buffer = "Some" =>
          /\ ring = <<>>
          /\ wire = stream
          /\ ~enabled /\ ~complete /\ source_buffer = "None"
    /\ (last.op = "poll" /\ last.ret = "Idle") =>
          /\ last.post.buffer = "Some"
          /\ last.post.ring = <<>>
          /\ ~last.post.enabled /\ ~last.post.complete

\* A poll() has returned Idle right after reclaiming a transfer that carried
\* two records, one of them appended while it was in flight.
C12_Witness ==
    /\ last.op = "poll" /\ last.ret = "Idle" /\ last.reclaims = 1
    /\ pc = "run" /\ buffer = "Some"
    /\ Len(recs) >= 2 /\ recs[Len(recs)].branch = "append"
    /\ Len(wire) > Len(recs[1].bytes)

\* The bytes in the buffer a record of the latest record call was written
\* behind: the idle buffer, the unread rest of the reclaimed buffer, or the
\* buffer of the transfer in flight
Destination ==
    IF last.pre.buffer = "Some" THEN last.pre.ring
    ELSE IF last.pre.complete THEN Queued(last.pre)
    ELSE last.pre.ring

\* C13: when the serialised record is longer than the free space of its
\* destination (the idle buffer, the reclaimed buffer or the tail behind a
\* transfer in flight), exactly its leading bytes that fit are retained and the
\* rest dropped; the call returns without panic and the bytes that were in the
\* buffer are unchanged.
C13_TruncatedToFit ==
    LET free == Capacity - Len(Destination)
    IN  (last.op = "log" /\ last.en /\ Len(last.bytes) > free)
        => /\ last.panic = "none" /\ panic = "none"
           /\ last.post.ring = Destination \o SubSeq(last.bytes, 1, free)
           /\ Len(last.post.ring) = Capacity

\* A record call reclaimed a buffer with unread bytes and retained part, not
\* all, of its record behind them.
C13_Witness ==
    /\ last.op = "log" /\ last.en /\ last.reclaims = 1
    /\ Len(Destination) > 0
    /\ Len(last.post.ring) > Len(Destination)
    /\ Len(last.post.ring) < Len(Destination) + Len(last.bytes)

\* C14: in every reachable state the buffer holds at most Capacity unread
\* bytes, in the slot or in a transfer, and so do the buffers every record and
\* poll() call saw and left.
C14_WithinCapacity ==
    /\ Len(ring) <= Capacity
    /\ reserved <= Len(ring) /\ sent <= reserved
    /\ Len(last.pre.ring) <= Capacity /\ Len(last.post.ring) <= Capacity

\* The buffer of a transfer in flight is full after a record longer than the
\* whole buffer was appended.
C14_Witness ==
    /\ Len(ring) = Capacity /\ Active /\ enabled
    /\ last.op = "log" /\ last.en /\ Len(last.bytes) > Capacity
    /\ last.pre.buffer = "None" /\ ~last.pre.complete

\* C15: while a transfer is in flight, no step of a record call changes the
\* bytes the transfer covers, the extent of the transfer or the position of
\* the hardware in it, also when the record is longer than the free space.
C15_TransferUntouched ==
    [][(/\ source_buffer = "Some" /\ enabled
        /\ \/ (pc = "log_append" /\ pc' = "run")
           \/ (nlog' = nlog + 1 /\ ~complete))
       => /\ SubSeq(ring', 1, reserved) = SubSeq(ring, 1, reserved)
          /\ reserved' = reserved /\ sent' = sent /\ wire' = wire
          /\ source_buffer' = "Some" /\ enabled' /\ complete' = complete]_vars

\* A record longer than the free space was appended behind a transfer whose
\* bytes the hardware had not all read.
C15_Witness ==
    /\ last.op = "log" /\ last.en
    /\ last.pre.buffer = "None" /\ ~last.pre.complete
    /\ Len(last.bytes) > Capacity - Len(last.pre.ring)
    /\ Len(ring) = Capacity /\ source_buffer = "Some" /\ sent < reserved

\* The form of a record on the wire: [LEVEL target]: message CR LF
WireFormat(r) ==
    <<"[">> \o LevelStr(r.level) \o <<" ">> \o r.target \o <<"]", ":", " ">>
        \o r.msg \o <<"\r", "\n">>

\* What the first n written records contributed to the retained stream
RECURSIVE KeptOf(_)
KeptOf(n) ==
    IF n = 0 THEN <<>>
    ELSE KeptOf(n - 1) \o SubSeq(WireFormat(recs[n]), 1, recs[n].kept)

CRLFTerminated(s) ==
    Len(s) >= 2 /\ s[Len(s) - 1] = "\r" /\ s[Len(s)] = "\n"

\* C16 as stated: every record that appears in the output appears whole in
\* the form [LEVEL target]: message CR LF, and the output stream ends with
\* CR LF whenever it holds a record. False for a record that met a full buffer.
C16_EveryRecordWhole ==
    /\ \A i \in 1..Len(recs) :
          recs[i].kept > 0 => recs[i].kept = Len(WireFormat(recs[i]))
    /\ stream # <<>> => CRLFTerminated(stream)

\* C16, amended: in all three branches the bytes a record call hands to the
\* buffer are the form [LEVEL target]: message CR LF; the output is the
\* records' retained bytes in order; a record is retained whole, and then is
\* CRLF-terminated, unless it filled the buffer, in which case its leading
\* bytes that fit appear and the line ending may be missing.
C16_WireFormat ==
    /\ \A i \in 1..Len(recs) :
          /\ recs[i].bytes = WireFormat(recs[i])
          /\ recs[i].kept <= Len(recs[i].bytes)
          /\ recs[i].kept = Len(recs[i].bytes) \/ recs[i].room = 0
    /\ stream = KeptOf(Len(recs))
    /\ IsPrefix(wire, stream)

\* All three branches wrote a record, the last one cut short by the full
\* buffer, and everything retained has been transferred.
C16_Witness ==
    /\ {recs[i].branch : i \in 1..Len(recs)} = {"idle", "reclaim", "append"}
    /\ \E i \in 1..Len(recs) :
          recs[i].kept > 0 /\ recs[i].kept < Len(recs[i].bytes)
    /\ \E i \in 1..Len(recs) :
          recs[i].branch = "append" /\ recs[i].kept = Len(recs[i].bytes)
    /\ wire = stream /\ ~CRLFTerminated(wire)

\* C17 as stated: a call of init() made when the logger is already installed
\* returns the error as a value, without panic, and leaves the engine, its
\* filters and the registration as the first call made them. False in the
\* default build, where the call panics while making its buffer.
C17_SecondInitReturnsError ==
    [][(logger = "Some" /\ ninit' = ninit + 1)
       => /\ panic' = "none"
          /\ last'.op = "init" /\ last'.ret = "Err"
          /\ UNCHANGED <<buffer, source_buffer, ring, reserved, sent, enabled,
                         complete, interrupt, wire, stream, filters,
                         max_level, logger, log_set>>]_vars

\* A second init() of the default build has panicked on the static buffer the
\* first call took.
C17_Witness ==
    /\ ninit = 2 /\ ~byob /\ logger = "Some"
    /\ panic = "unwrap on Err BufferTaken"

\* C18: poll() called before any init() panics: no poll() gets to its
\* completion test or returns a result while the logger is not installed, and
\* the panicking call changes nothing of the engine or the registration.
C18_PollBeforeInitPanics ==
    [][logger = "None"
       => /\ pc' # "poll_check"
          /\ last'.op # "poll"
          /\ panic' # panic
                => /\ panic' = "User has registered a logger"
                   /\ UNCHANGED <<buffer, source_buffer, ring, reserved, sent,
                                  enabled, complete, interrupt, wire, stream,
                                  last, pc, regvars>>]_vars

\* poll() has panicked before any init().
C18_Witness ==
    /\ panic = "User has registered a logger"
    /\ logger = "None" /\ ninit = 0
    /\ last.op = "none" /\ buffer = "None" /\ source_buffer = "None"

\* A threshold of a filter entry admits a level: no threshold, or a level at
\* most as verbose as the threshold
Admits(threshold, level) ==
    threshold = NoLevel \/ LevelNum(level) <= threshold[1]

\* Some entry for the target admits the level
AdmittedByAny(level, target) ==
    /\ LevelNum(level) <= max_level
    /\ \/ filters = <<>>
       \/ \E i \in 1..Len(filters) :
             filters[i][1] = target /\ Admits(filters[i][2], level)

\* The first entry for the target admits the level
AdmittedByFirst(level, target) ==
    /\ LevelNum(level) <= max_level
    /\ \/ filters = <<>>
       \/ \E i \in 1..Len(filters) :
             /\ filters[i][1] = target
             /\ \A j \in 1..(i - 1) : filters[j][1] # target
             /\ Admits(filters[i][2], level)

\* C19 as stated: a record is accepted exactly when the maximum level permits
\* its level and the filters are empty or hold its target with a threshold
\* that admits its level. False when the target is listed more than once.
C19_AcceptedIffListed ==
    last.op = "log" => (last.en <=> AdmittedByAny(last.level, last.target))

\* C19, amended: a record is accepted exactly when the maximum level permits
\* its level and the filters are empty or the first entry for its target has
\* a threshold that admits its level; a target with no entry in non-empty
\* filters is rejected.
C19_AcceptedIffFirstEntryAdmits ==
    /\ last.op = "log" =>
          (last.en <=> AdmittedByFirst(last.level, last.target))
    /\ (/\ last.op = "log" /\ filters # <<>>
        /\ \A i \in 1..Len(filters) : filters[i][1] # last.target)
       => ~last.en

\* With a target listed twice, a record the first entry rejects and the
\* second would admit was rejected, after a record the first entry admits was
\* accepted.
C19_Witness ==
    /\ Len(filters) = 2 /\ filters[1][1] = filters[2][1]
    /\ last.op = "log" /\ ~last.en
    /\ last.target = filters[2][1]
    /\ LevelNum(last.level) <= max_level
    /\ ~Admits(filters[1][2], last.level) /\ Admits(filters[2][2], last.level)
    /\ recs # <<>> /\ recs[1].target = last.target

\* C20: a record call whose record is rejected, by the maximum level or by the
\* filters, has no effect: nothing is formatted, the slot, the buffer, the
\* transfer in flight and the interrupt latch are unchanged, and no transfer
\* is started or reclaimed.
C20_RejectedNoEffect ==
    [][nlog' = nlog + 1
       => LET r == IF pc' = "log_append" THEN cur' ELSE last'
          IN  ~AdmittedByFirst(r.level, r.target)
              => /\ UNCHANGED <<buffer, source_buffer, ring, reserved, sent,
                                enabled, complete, interrupt, wire, stream,
                                full, recs, pc, cur, panic>>
                 /\ last'.op = "log" /\ ~last'.en
                 /\ last'.bytes = <<>>
                 /\ last'.starts = 0 /\ last'.reclaims = 0
                 /\ last'.post = last'.pre]_vars

\* A record the filters reject, though the maximum level permits it, was
\* logged while a transfer was in flight.
C20_Witness ==
    /\ last.op = "log" /\ ~last.en /\ last.bytes = <<>>
    /\ LevelNum(last.level) <= max_level
    /\ filters # <<>>
    /\ last.pre.source_buffer = "Some" /\ last.pre.enabled
    /\ Active /\ Len(ring) > 0

\* C21: from start_transfer until a poll() or record call observes the
\* hardware's completion, no step hands the buffer back and every poll()
\* returns Active; a call reclaims only a transfer it saw complete, and every
\* started transfer hands its buffer back at most once.
C21_ActiveUntilObserved ==
    /\ [](/\ nreclaim <= nstart /\ nstart <= nreclaim + 1
          /\ (source_buffer = "Some") <=> (nstart = nreclaim + 1)
          /\ last.reclaims > 0 => (last.pre.complete /\ last.reclaims = 1)
          /\ (/\ last.op = "poll" /\ last.pre.source_buffer = "Some"
              /\ ~last.pre.complete)
             => /\ last.ret = "Active" /\ last.reclaims = 0
                /\ last.post.buffer = "None"
                /\ last.post.source_buffer = "Some")
    /\ [][(source_buffer = "Some" /\ ~complete)
          => /\ buffer' = "None" /\ source_buffer' = "Some"
             /\ nreclaim' = nreclaim /\ nstart' = nstart]_vars

\* A poll() has returned Active during the second transfer, part of it sent,
\* after the first was handed back once.
C21_Witness ==
    /\ last.op = "poll" /\ last.ret = "Active" /\ ~last.pre.complete
    /\ nstart = 2 /\ nreclaim = 1
    /\ Active /\ sent > 0 /\ sent < reserved

\* C22: start_transfer is called only when the peripheral holds no buffer:
\* the slot held it, or the same call has just reclaimed the completed
\* transfer. No record or poll() call reaches the sink's "Start transfer
\* failed" panic, nor any other.
C22_StartOnlyWhenFree ==
    /\ panic = "none" /\ last.panic = "none"
    /\ last.starts <= 1
    /\ last.starts = 1 =>
          \/ (last.pre.buffer = "Some" /\ last.pre.source_buffer = "None"
              /\ ~last.pre.enabled /\ last.reclaims = 0)
          \/ (last.pre.source_buffer = "Some" /\ last.pre.complete
              /\ last.reclaims = 1)
    /\ last.starts = 1 =>
          (last.post.source_buffer = "Some" /\ last.post.enabled
           /\ last.post.buffer = "None")

\* A poll() has reclaimed a completed transfer and started the next one, the
\* third of the run.
C22_Witness ==
    /\ last.op = "poll" /\ last.starts = 1 /\ last.reclaims = 1
    /\ nstart = 3 /\ panic = "none"

C24_NeverWaits ==
    /\ [](/\ pc = "run" =>
                /\ ENABLED PollEnter
                /\ nlog < MaxLogs =>
                      \A level \in InLevels, target \in InTargets,
                         msg \in InMessages : ENABLED Log(level, target, msg)
          /\ pc = "poll_check" => ENABLED PollCheck
          /\ pc = "log_append" => ENABLED LogAppend)
    /\ [][(pc # "run" /\ pc' # pc) => pc' = "run"]_vars

\* A record call is about to append while the transfer is still moving bytes
\* and the latch of an earlier completion is pending.
C24_Witness ==
    /\ pc = "log_append" /\ ~complete /\ sent < reserved /\ interrupt
    /\ ENABLED LogAppend

\* C25: bytes appended through the write half while a transfer is in flight
\* lie behind that transfer's extent and are not sent by it; they go out with
\* the next transfer, which the next poll() or record that sees completion
\* starts, and when it is a record that restarts, the transfer it starts
\* carries the earlier appended bytes first and the new record behind them.
C25_AppendedGoNext ==
    /\ [](/\ sent <= reserved /\ reserved <= Len(ring)
          /\ Len(wire) + (Len(ring) - sent) = Len(stream)
          /\ (last.op = "log" /\ last.en /\ last.reclaims = 1)
             => /\ last.post.ring = Queued(last.pre)
                       \o Retained(last.bytes,
                                   Capacity - Len(Queued(last.pre)))
                /\ last.post.reserved = Len(last.post.ring)
                /\ last.starts = 1
          /\ (last.op = "poll" /\ last.reclaims = 1
              /\ Queued(last.pre) # <<>>)
             => /\ last.post.ring = Queued(last.pre)
                /\ last.post.reserved = Len(last.post.ring)
                /\ last.starts = 1)
    /\ [][(pc = "log_append" /\ pc' = "run")
          => /\ reserved' = reserved /\ sent' = sent
             /\ IsPrefix(ring, ring')
             /\ wire' = wire]_vars

\* Three records went out: the first started a transfer, the second was
\* appended during it, and the third, logged after completion, restarted with
\* the second's bytes ahead of its own.
C25_Witness ==
    /\ Len(recs) = 3
    /\ recs[1].branch = "idle" /\ recs[2].branch = "append"
    /\ recs[3].branch = "reclaim" /\ recs[2].msg # recs[3].msg
    /\ last.op = "log" /\ last.reclaims = 1
    /\ Queued(last.pre) = recs[2].bytes
    /\ nstart = 2
    /\ wire = recs[1].bytes \o recs[2].bytes \o recs[3].bytes

\* C26: with poll() called from the completion interrupt handler and from
\* thread mode, and records from any context, in any interleaving: the call
\* that first sees a transfer complete reclaims it, once, and a call that
\* does not see completion reclaims nothing; every transfer started covers
\* exactly the retained bytes not yet transmitted; and every byte on the wire
\* is the next byte of the retained stream, so none is sent twice.
C26_ReclaimedOnce ==
    /\ [](/\ nreclaim <= nstart /\ nstart <= nreclaim + 1
          /\ last.op = "poll" =>
                last.reclaims = (IF last.pre.complete THEN 1 ELSE 0)
          /\ (last.op = "log" /\ last.en) =>
                last.reclaims = (IF last.pre.complete THEN 1 ELSE 0)
          /\ IsPrefix(wire, stream)
          /\ wire \o SubSeq(ring, sent + 1, Len(ring)) = stream)
    /\ [][nstart' # nstart
          => /\ nstart' = nstart + 1
             /\ sent' = 0 /\ reserved' = Len(ring') /\ ring' # <<>>
             /\ wire \o ring' = stream']_vars
    /\ [][wire' # wire => wire' = SubSeq(stream, 1, Len(wire) + 1)]_vars

\* A poll() from the completion interrupt handler has reclaimed the second
\* transfer, the first having been reclaimed by a record, and all bytes went
\* out once.
C26_Witness ==
    /\ ctx = "dma_isr" /\ pc = "run"
    /\ last.op = "poll" /\ last.reclaims = 1 /\ last.ret = "Idle"
    /\ nstart = 2 /\ nreclaim = 2
    /\ \E i \in 1..Len(recs) : recs[i].branch = "reclaim"
    /\ wire = stream /\ wire = full

\* C27: right after a successful init() the engine is Idle with an empty
\* buffer and no transfer in flight, and a poll() made before any record is
\* written returns Idle and starts no transfer.
C27_InitIdle ==
    /\ [][(/\ ninit' = ninit + 1 /\ panic' = "none"
           /\ last'.op = "init" /\ last'.ret = "Ok")
          => /\ logger' = "Some" /\ log_set' = "dma"
             /\ buffer' = "Some" /\ source_buffer' = "None"
             /\ ring' = <<>> /\ reserved' = 0 /\ sent' = 0
             /\ ~enabled' /\ ~complete' /\ ~interrupt']_vars
    /\ []((logger = "Some" /\ recs = <<>> /\ last.op = "poll")
          => /\ last.ret = "Idle" /\ last.starts = 0 /\ last.reclaims = 0
             /\ Idle /\ ring = <<>> /\ nstart = 0)

\* The first call after the one successful init() was a poll(), and it
\* returned Idle.
C27_Witness ==
    /\ ninit = 1 /\ logger = "Some" /\ nlog = 0 /\ recs = <<>>
    /\ last.op = "poll" /\ last.ret = "Idle" /\ last.starts = 0
    /\ pc = "run" /\ Idle

\* C29: the blocking logger writes every enabled record whole inside one
\* critical section before log() returns. Whatever the record's length no
\* byte is dropped, and the records of thread mode and of interrupt handlers
\* reach the wire one after the other, never interleaved: the wire, the FIFO
\* and the rest of the record being written are together exactly the accepted
\* records in call order.
C29_BlockingWritesAll ==
    /\ frames # <<>> => (primask /\ Len(frames) = 1 /\ pc = "bwrite")
    /\ pc = "run" => (frames = <<>> /\ ~primask)
    /\ \A i \in 1..Len(recs) : recs[i].bytes = WireFormat(recs[i])
    /\ wire \o tx_fifo \o (IF frames = <<>> THEN <<>> ELSE Head(frames))
          = KeptOf(Len(recs))

\* A record longer than the DMA buffer, logged from an interrupt handler after
\* a record from thread mode, has reached the wire whole behind it.
C29_Witness ==
    /\ Len(recs) = 2 /\ recs[1].ctx = "thread" /\ recs[2].ctx = "isr"
    /\ Len(recs[2].bytes) > Capacity
    /\ pc = "run" /\ tx_fifo = <<>>
    /\ wire = WireFormat(recs[1]) \o WireFormat(recs[2])

\* C30: every poll() clears a pending interrupt latch before it tests for
\* completion, whether the transfer is complete or not, and raises it in no
\* step of its own; the latch is pending when a poll() returns only if the
\* hardware completed a transfer during that poll(), so the completion
\* interrupt handler that calls poll() is entered again only for a new
\* completion.
C30_LatchCleared ==
    /\ [][(pc = "run" /\ pc' = "poll_check") => ~interrupt']_vars
    /\ [][(pc = "poll_check" /\ pc' = "run")
          => (interrupt' = interrupt /\ last'.post.interrupt = interrupt')]_vars
    /\ []((last.op = "poll" /\ last.post.interrupt)
          => (/\ int_on_completion
              /\ ~last.entry.complete /\ last.pre.complete
              /\ last.reclaims = 1))

\* The completion handler's poll() found the latch of an earlier completion
\* pending while the next transfer was still in flight, cleared it and
\* returned Active.
C30_Witness ==
    /\ ctx = "dma_isr" /\ pc = "run"
    /\ last.op = "poll" /\ last.ret = "Active"
    /\ last.entry.interrupt /\ ~last.entry.complete /\ ~last.pre.complete
    /\ ~last.post.interrupt /\ ~interrupt

\* C31: no completion is lost to a poll(), wherever in the call the hardware
\* completes. A poll() reclaims the transfer exactly when its test finds it
\* complete; and with the channel raising its interrupt on completion, a
\* transfer that is complete and not reclaimed outside the window between
\* poll()'s latch clear and its test has the latch pending, so that once the
\* call has returned the completion handler is entered and polls again.
C31_NoCompletionLost ==
    /\ (int_on_completion /\ complete /\ pc # "poll_check") => interrupt
    /\ last.op = "poll" =>
          /\ last.reclaims = (IF last.pre.complete THEN 1 ELSE 0)
          /\ (last.post.complete /\ int_on_completion) => last.post.interrupt
    /\ (int_on_completion /\ complete /\ pc = "run" /\ panic = "none")
          => ENABLED PollEnterIn("dma_isr")

\* The hardware completed the transfer after poll()'s test found it not
\* complete and before poll() returned: the call returned Active, reclaimed
\* nothing, and the latch it had cleared on entry is pending again.
C31_Witness ==
    /\ pc = "run" /\ last.op = "poll" /\ last.ret = "Active"
    /\ last.entry.interrupt /\ ~last.pre.interrupt
    /\ ~last.pre.complete /\ last.reclaims = 0
    /\ last.post.complete /\ last.post.interrupt
    /\ complete /\ interrupt /\ int_on_completion

\* C32: no unwrap in record or poll() fails in a reachable state. Whenever
\* is_transfer_complete is true, transfer_complete returns the buffer;
\* whenever the slot is empty, write_half returns a handle, whether the
\* transfer is still in flight or the hardware completed it after the record
\* found it not complete; and no call has panicked.
C32_UnwrapsNeverFail ==
    /\ panic = "none" /\ last.panic = "none"
    /\ is_transfer_complete(M) => transfer_complete_ret(M) = "Some"
    /\ (buffer = "None" /\ ~is_transfer_complete(M)) => write_half(M) = "Some"
    /\ pc = "log_append" => (buffer = "None" /\ write_half(M) = "Some")
    /\ ((last.op = "poll" \/ (last.op = "log" /\ last.en))
        /\ last.pre.buffer = "None" /\ last.pre.complete)
          => (last.pre.source_buffer = "Some" /\ last.reclaims = 1)

\* A record was appended through the write half after the hardware had
\* completed the transfer the record found in flight, in a run where an
\* earlier completed transfer was reclaimed.
C32_Witness ==
    /\ pc = "run" /\ last.op = "log" /\ last.en /\ last.panic = "none"
    /\ last.pre.buffer = "None" /\ ~last.pre.complete /\ last.post.complete
    /\ Len(last.post.ring) > Len(last.pre.ring)
    /\ nreclaim >= 1

\* C33: when the hardware completes the transfer in flight after a record
\* found it not complete and before the record's insertion, the inserted bytes
\* are neither lost nor sent twice: the insertion puts them unread behind the
\* completed transfer's extent and changes nothing of the transfer; the call
\* that next reclaims the buffer, a poll() or a record, starts a transfer that
\* carries them first; and the wire followed by the unread bytes is at all
\* times the retained stream.
C33_LateAppendKept ==
    /\ [][(pc = "log_append" /\ pc' = "run" /\ complete)
          => /\ ring' = ring \o Retained(last'.bytes, Capacity - Len(ring))
             /\ stream' = stream \o Retained(last'.bytes, Capacity - Len(ring))
             /\ reserved' = reserved /\ sent' = sent /\ wire' = wire
             /\ complete' /\ source_buffer' = "Some" /\ buffer' = "None"
             /\ nstart' = nstart /\ nreclaim' = nreclaim]_vars
    /\ [][(nreclaim' = nreclaim + 1 /\ Len(ring) > reserved)
          => /\ nstart' = nstart + 1
             /\ IsPrefix(SubSeq(ring, reserved + 1, Len(ring)), ring')
             /\ reserved' = Len(ring') /\ sent' = 0 /\ ~complete'
             /\ wire' = wire]_vars
    /\ [](wire \o SubSeq(ring, sent + 1, Len(ring)) = stream)

\* A record's insertion came after the hardware had completed the transfer
\* the record had found in flight; the record lies whole and unread behind
\* the transfer's extent, the completed transfer not yet reclaimed.
C33_Witness ==
    /\ pc = "run" /\ last.op = "log" /\ last.en
    /\ last.pre.buffer = "None" /\ ~last.pre.complete /\ last.post.complete
    /\ complete /\ sent = reserved /\ nreclaim = nstart - 1
    /\ SubSeq(ring, reserved + 1, Len(ring)) = last.bytes
    /\ wire \o last.bytes = stream

\* C34: what a record loses is bounded by the bytes unread in its destination
\* at the moment of the call, not by the bytes logged before it: a record no
\* longer than the capacity less the unread bytes of its destination (a
\* completed transfer's bytes not counted once the call has reclaimed it) is
\* retained whole behind them, however many bytes earlier records wrote or
\* had dropped.
C34_BoundedByUnread ==
    (/\ last.op = "log" /\ last.en
     /\ Len(last.bytes) <= Capacity - Len(Destination))
    => /\ last.post.ring = Destination \o last.bytes
       /\ recs[Len(recs)].bytes = last.bytes
       /\ recs[Len(recs)].kept = Len(last.bytes)
       /\ SubSeq(stream, Len(stream) - Len(last.bytes) + 1, Len(stream))
             = last.bytes

\* After a record that overran the buffer and lost its end, with more bytes
\* logged in all than the buffer holds, a record that reclaimed the completed
\* transfer was retained whole.
C34_Witness ==
    /\ last.op = "log" /\ last.en /\ last.reclaims = 1
    /\ Len(full) > Capacity /\ Len(stream) > Capacity
    /\ Len(recs) >= 2 /\ recs[1].kept < Len(recs[1].bytes)
    /\ recs[Len(recs)].kept = Len(last.bytes)
    /\ last.post.ring = last.bytes

\* Entry i of the filters is the first one for its target
FirstForTarget(i) == \A j \in 1..(i - 1) : filters[j][1] # filters[i][1]

\* What entry i of the filters lets through, of the records of its target:
\* without a level every record the maximum level permits, with a level
\* exactly those at or below the threshold
EntryDecides(i) ==
    IF filters[i][2] = NoLevel
    THEN last.en <=> LevelNum(last.level) <= max_level
    ELSE last.en <=> /\ LevelNum(last.level) <= max_level
                     /\ LevelNum(last.level) <= filters[i][2][1]

\* C35 as stated: every filter entry without a level admits the records of
\* its target at every level the maximum level permits, and every entry with a
\* level admits exactly the records at or below its threshold. False for an
\* entry that stands behind another entry for the same target.
C35_EveryEntryAdmits ==
    last.op = "log" =>
        \A i \in 1..Len(filters) :
            filters[i][1] = last.target => EntryDecides(i)

\* C35, amended: a filter entry that is the first for its target admits, when
\* its level is absent, the records of its target at every level the maximum
\* level permits, and when it has a level, exactly the records of its target
\* at or below that threshold (and within the maximum level).
C35_FirstEntryAdmits ==
    last.op = "log" =>
        \A i \in 1..Len(filters) :
            (filters[i][1] = last.target /\ FirstForTarget(i))
                => EntryDecides(i)

\* With one entry without a level, the records of its target at the two
\* levels the maximum level permits were accepted, and one more verbose than
\* the maximum level was rejected.
C35_Witness ==
    /\ filters = <<<<app, NoLevel>>>>
    /\ Len(recs) = 2 /\ recs[1].target = app /\ recs[2].target = app
    /\ {recs[1].level, recs[2].level} = {"ERROR", "INFO"}
    /\ last.op = "log" /\ last.target = app /\ ~last.en
    /\ LevelNum(last.level) > max_level

\* C36: an init() call, of the DMA or of the blocking logger, that returns
\* the already-set error leaves the log crate's maximum level, the registered
\* logger and the filters of the engine registered first as they were, and so
\* every decision of that engine on a record, whatever configuration the
\* rejected call carried.
C36_RejectedInitKeepsConfig ==
    [][(/\ ninit' = ninit + 1 \/ nbinit' = nbinit + 1
        /\ panic' = "none"
        /\ last'.ret = "Err")
       => /\ log_set # "none"
          /\ max_level' = max_level
          /\ log_set' = log_set
          /\ log_set = "dma" =>
                /\ filters' = filters
                /\ \A level \in FilterLevels, target \in FilterTargets :
                      Enabled(level, target)' = Enabled(level, target)
          /\ log_set = "blocking" =>
                /\ blocking_filters' = blocking_filters
                /\ \A level \in FilterLevels, target \in FilterTargets :
                      BlockingEnabled(level, target)'
                          = BlockingEnabled(level, target)]_vars

\* The blocking logger was installed with the default configuration; a
\* dma::init() that carried the other configuration was then rejected, and
\* the maximum level and the blocking logger's filters are the default ones.
C36_Witness ==
    /\ log_set = "blocking" /\ nbinit = 1 /\ ninit = 1
    /\ last.op = "init" /\ last.ret = "Err" /\ panic = "none"
    /\ filters = <<<<net, NoLevel>>>>
    /\ max_level = DefaultConfig.max_level
    /\ blocking_filters = DefaultConfig.filters

\* C37: a dma::init() that returns the error because another logger was
\* installed first has nevertheless stored its engine, Idle, in the LOGGER
\* static; a poll() made afterwards does not panic and returns Idle, and no
\* later dma::init(), whether it returns the error or not, changes the stored
\* engine or its filters.
C37_RejectedEngineStored ==
    /\ [][(/\ ninit' = ninit + 1 /\ logger = "None" /\ log_set # "none"
           /\ panic' = "none")
          => /\ last'.op = "init" /\ last'.ret = "Err"
             /\ logger' = "Some" /\ buffer' = "Some"
             /\ source_buffer' = "None" /\ ring' = <<>> /\ ~enabled'
             /\ log_set' = log_set]_vars
    /\ [](logger = "Some" => panic # "User has registered a logger")
    /\ []((logger = "Some" /\ log_set = "blocking" /\ last.op = "poll")
          => /\ last.ret = "Idle" /\ last.panic = "none"
             /\ last.starts = 0 /\ last.reclaims = 0
             /\ Idle)
    /\ [][(ninit' = ninit + 1 /\ logger = "Some")
          => /\ logger' = "Some"
             /\ UNCHANGED <<buffer, source_buffer, ring, reserved, sent,
                            enabled, complete, interrupt, filters>>]_vars

\* After blocking::init(), a first dma::init() was rejected, a poll()
\* returned Idle, and a second dma::init() was rejected in turn and left the
\* stored engine Idle.
C37_Witness ==
    /\ log_set = "blocking" /\ nbinit = 1 /\ ninit = 2
    /\ panic = "none" /\ logger = "Some"
    /\ last.op = "init" /\ last.ret = "Err" /\ last.prev = "Idle"
    /\ Idle /\ ring = <<>>

====
